---------------------------- MODULE Spec2Model ----------------------------
(***************************************************************************)
(* A model of the Pratt parser of src/src/parser.rs.                       *)
(*                                                                         *)
(* The parser is a recursive-descent program; it is modelled as a stack    *)
(* machine.  Every Rust function of Parser is one action; a function that  *)
(* calls another pushes a frame and continues at the program counter it    *)
(* left in its own frame when the callee has returned.  Every step of the  *)
(* machine performs at most one call of Parser::next_token.                *)
(***************************************************************************)
EXTENDS Integers, Sequences, FiniteSets, TLC

VARIABLES
    tokens,     \* the token stream the lexer will produce (without the EOF)
    src,        \* how the token stream was built (the input family)
    lexpos,     \* number of tokens of `tokens` the lexer has handed out
    cur,        \* Parser.current_token
    nxt,        \* Parser.next_token
    stack,      \* the call stack: frames [fn, pc, locals...]
    ret,        \* the value the last finished call returned
    outcome,    \* "running", "ok", "err" or "panic"
    result,     \* what parse_program returned: Ok(statements) or Err(token)
    pass,       \* 1: the parse of the input; 2: the parse of its rendering
    rendered    \* pass 2: the canonical text (as tokens) of the first Program

vars == <<tokens, src, lexpos, cur, nxt, stack, ret, outcome, result, pass, rendered>>

(***************************************************************************)
(* Tokens: a kind and a literal.  A literal is a text, coded as the        *)
(* sequence of its characters: the letters a, b, c, ... are 1, 2, 3, ...,  *)
(* a digit is its value.  Tokens whose kind fixes their text (operators,   *)
(* delimiters, keywords) carry the empty text here.                        *)
(***************************************************************************)
Tok(k, l) == [k |-> k, l |-> l]
T(k) == Tok(k, <<>>)
\* The identifier, the string and the integer whose text is the one character c.
Id(c) == Tok("IDENT", <<c>>)
Str(c) == Tok("STRING", <<c>>)
Num(c) == Tok("INT", <<c>>)
EOFTok == T("EOF")
DefaultTok == T("DEFAULT")

BinaryKinds == {"PLUS", "MINUS", "SLASH", "ASTERISK", "EQ", "NotEq", "LT", "GT"}

\* Precedence ranks (the enum Precedence, ordered by its derived PartialOrd).
LOWEST == 0
EQUALS == 1
LESSGREATER == 2
SUM == 3
PRODUCT == 4
PREFIX == 5
CALL == 6

\* Token::get_precedence
GetPrecedence(tok) ==
    CASE tok.k \in {"EQ", "NotEq"} -> EQUALS
      [] tok.k \in {"LT", "GT"} -> LESSGREATER
      [] tok.k \in {"PLUS", "MINUS"} -> SUM
      [] tok.k \in {"SLASH", "ASTERISK"} -> PRODUCT
      [] tok.k \in {"LPAREN", "LBRACKET"} -> CALL
      [] OTHER -> LOWEST

\* The text of an operator token (its literal, and the string
\* parse_infix_expression maps its kind to).
OperatorText(k) ==
    CASE k = "PLUS" -> "+"
      [] k = "MINUS" -> "-"
      [] k = "ASTERISK" -> "*"
      [] k = "SLASH" -> "/"
      [] k = "EQ" -> "=="
      [] k = "NotEq" -> "!="
      [] k = "LT" -> "<"
      [] k = "GT" -> ">"
      [] k = "BANG" -> "!"
      [] OTHER -> "?"

\* The digits of i32::MAX, 2147483647, and of the number after it.
I32MaxDigits == <<2, 1, 4, 7, 4, 8, 3, 6, 4, 7>>
TooBigDigits == <<2, 1, 4, 7, 4, 8, 3, 6, 4, 8>>

RECURSIVE StripZeros(_)
StripZeros(ds) == IF ds # <<>> /\ Head(ds) = 0 THEN StripZeros(Tail(ds)) ELSE ds

RECURSIVE DigitsLeq(_, _)
\* a <= b for two digit texts of the same length
DigitsLeq(a, b) ==
    IF a = <<>> THEN TRUE
    ELSE IF Head(a) # Head(b) THEN Head(a) < Head(b)
    ELSE DigitsLeq(Tail(a), Tail(b))

RECURSIVE DigitsValue(_)
DigitsValue(ds) == IF ds = <<>> THEN 0 ELSE 10 * DigitsValue(SubSeq(ds, 1, Len(ds) - 1)) + ds[Len(ds)]

(***************************************************************************)
(* The AST (ast.rs): tagged records.                                       *)
(***************************************************************************)
Identifier(l) == [t |-> "Identifier", v |-> l]
Integer(i) == [t |-> "Integer", i |-> i]
String(l) == [t |-> "String", v |-> l]
Bool(b) == [t |-> "Bool", b |-> b]
Null == [t |-> "Null"]
None == [t |-> "None"]
PrefixExpression(op, r) == [t |-> "PrefixExpression", operator |-> op, right |-> r]
InfixExpression(l, op, r) == [t |-> "InfixExpression", left |-> l, operator |-> op, right |-> r]
IfExpression(c, a, b) == [t |-> "IfExpression", condition |-> c, consequence |-> a, alternative |-> b]
FunctionLiteral(ps, b) == [t |-> "FunctionLiteral", parameters |-> ps, body |-> b]
CallExpression(f, as) == [t |-> "CallExpression", function |-> f, body |-> as]
Array(es) == [t |-> "Array", elements |-> es]
IndexExpression(a, s) == [t |-> "IndexExpression", array |-> a, subscript |-> s]
Hashmap(ps) == [t |-> "Hashmap", pairs |-> ps]
LetStatement(i, v) == [t |-> "LetStatement", identifier |-> i, value |-> v]
Return(v) == [t |-> "Return", value |-> v]
ExpressionStatement(e) == [t |-> "ExpressionStatement", expression |-> e]
Block(ss) == [t |-> "Block", statements |-> ss]

\* Results of calls: Ok(node), Ok(vector), Err(Errors::TokenInvalid(tok)), a bool.
Ok(v) == [st |-> "ok", v |-> v]
OkList(l) == [st |-> "ok", list |-> l]
Err(tok) == [st |-> "err", tok |-> tok]
BoolResult(b) == [st |-> "bool", b |-> b]
NoResult == [st |-> "none"]


(***************************************************************************)
(* The order of hash keys.  Expression derives Ord: keys compare by        *)
(* variant, then field by field; Enc lists an expression in that order.    *)
(***************************************************************************)
TagRank(t) ==
    CASE t = "Identifier" -> 1
      [] t = "String" -> 2
      [] t = "Integer" -> 3
      [] t = "Bool" -> 4
      [] t = "PrefixExpression" -> 5
      [] t = "InfixExpression" -> 6
      [] t = "IfExpression" -> 7
      [] t = "FunctionLiteral" -> 8
      [] t = "CallExpression" -> 9
      [] t = "Array" -> 10
      [] t = "IndexExpression" -> 11
      [] t = "Hashmap" -> 12
      [] t = "Null" -> 13
      [] t = "None" -> 14
      [] t = "LetStatement" -> 15
      [] t = "Return" -> 16
      [] t = "ExpressionStatement" -> 17
      [] t = "Block" -> 18
      [] OTHER -> 19

OperatorRank(op) ==
    CASE op = "!" -> 1
      [] op = "!=" -> 2
      [] op = "*" -> 3
      [] op = "+" -> 4
      [] op = "-" -> 5
      [] op = "/" -> 6
      [] op = "<" -> 7
      [] op = "==" -> 8
      [] op = ">" -> 9
      [] OTHER -> 10

RECURSIVE Enc(_), EncSeq(_), EncPairs(_)
Enc(e) ==
    <<TagRank(e.t)>> \o
    CASE e.t \in {"Identifier", "String"} -> [i \in 1..Len(e.v) |-> e.v[i] + 1] \o <<0>>
      [] e.t = "Integer" -> <<e.i>>
      [] e.t = "Bool" -> <<IF e.b THEN 1 ELSE 0>>
      [] e.t = "PrefixExpression" -> <<OperatorRank(e.operator)>> \o Enc(e.right)
      [] e.t = "InfixExpression" ->
            Enc(e.left) \o <<OperatorRank(e.operator)>> \o Enc(e.right)
      [] e.t = "IfExpression" ->
            Enc(e.condition) \o Enc(e.consequence) \o Enc(e.alternative)
      [] e.t = "FunctionLiteral" -> EncSeq(e.parameters) \o Enc(e.body)
      [] e.t = "CallExpression" -> Enc(e.function) \o EncSeq(e.body)
      [] e.t = "Array" -> EncSeq(e.elements)
      [] e.t = "IndexExpression" -> Enc(e.array) \o Enc(e.subscript)
      [] e.t = "Hashmap" -> EncPairs(e.pairs)
      [] e.t = "LetStatement" -> Enc(e.identifier) \o Enc(e.value)
      [] e.t = "Return" -> Enc(e.value)
      [] e.t = "ExpressionStatement" -> Enc(e.expression)
      [] e.t = "Block" -> EncSeq(e.statements)
      [] OTHER -> <<>>
EncSeq(s) ==
    IF s = <<>> THEN <<0>> ELSE <<1>> \o Enc(Head(s)) \o EncSeq(Tail(s))
EncPairs(s) ==
    IF s = <<>> THEN <<0>>
    ELSE <<1>> \o Enc(Head(s)[1]) \o Enc(Head(s)[2]) \o EncPairs(Tail(s))

RECURSIVE SeqLess(_, _)
SeqLess(a, b) ==
    IF b = <<>> THEN FALSE
    ELSE IF a = <<>> THEN TRUE
    ELSE IF Head(a) # Head(b) THEN Head(a) < Head(b)
    ELSE SeqLess(Tail(a), Tail(b))

\* Ord::cmp of two keys: k1 < k2
KeyLess(k1, k2) == SeqLess(Enc(k1), Enc(k2))

\* BTreeMap::insert on a map held as the sequence of its pairs in key order:
\* an equal key has its value replaced, a new key goes to its place.
BTreeInsert(pairs, k, v) ==
    LET below == SelectSeq(pairs, LAMBDA p : KeyLess(p[1], k))
        above == SelectSeq(pairs, LAMBDA p : KeyLess(k, p[1]))
    IN  below \o <<<<k, v>>>> \o above

(***************************************************************************)
(* The lexer (lexer.rs): a pull-based token source.  Past the last token   *)
(* it returns the EOF token, again and again.                              *)
(***************************************************************************)
LexerNextToken(p) == IF p < Len(tokens) THEN tokens[p + 1] ELSE EOFTok
LexerAdvance(p) == IF p < Len(tokens) THEN p + 1 ELSE p

(***************************************************************************)
(* The machine.                                                            *)
(***************************************************************************)
M == [cur |-> cur, nxt |-> nxt, lexpos |-> lexpos, stack |-> stack,
      ret |-> ret, outcome |-> outcome, result |-> result]

Commit(m) ==
    /\ cur' = m.cur
    /\ nxt' = m.nxt
    /\ lexpos' = m.lexpos
    /\ stack' = m.stack
    /\ ret' = m.ret
    /\ outcome' = m.outcome
    /\ result' = m.result
    /\ UNCHANGED <<tokens, src, pass, rendered>>

Top == stack[Len(stack)]
At(f) == outcome = "running" /\ stack # <<>> /\ Top.fn = f

\* An advance that pulls two tokens and drops the first of them.
NextTokenSkips(m) ==
    [m EXCEPT !.cur = m.nxt,
              !.nxt = LexerNextToken(LexerAdvance(m.lexpos)),
              !.lexpos = LexerAdvance(LexerAdvance(m.lexpos))]

\* Parser::next_token
NextToken(m) ==
    [m EXCEPT !.cur = m.nxt,
              !.nxt = LexerNextToken(m.lexpos),
              !.lexpos = LexerAdvance(m.lexpos)]

\* The running function goes on as frame f.
Continue(m, f) == [m EXCEPT !.stack = [@ EXCEPT ![Len(@)] = f]]
\* The position of the cursor of m in the token stream, counted from 1; the
\* end-of-input token stands for every position past the end.
PositionOf(m) ==
    IF m.cur.k = "EOF" THEN Len(tokens) + 1
    ELSE IF m.nxt.k = "EOF" THEN Len(tokens)
    ELSE m.lexpos - 1

\* The frame of a function that is entered with the cursor of m.
Entered(m, callee) == callee @@ [entry |-> PositionOf(m)]

\* The running function goes on as frame f once `callee` has returned.
Call(m, f, callee) ==
    [m EXCEPT !.stack = Append([@ EXCEPT ![Len(@)] = f], Entered(m, callee))]
\* The running function returns r to its caller.
Returns(m, r) == [m EXCEPT !.stack = SubSeq(@, 1, Len(@) - 1), !.ret = r]
\* panic!(), unimplemented!(), unwrap() of an Err: the process is gone.
Panics(m) == [m EXCEPT !.stack = <<>>, !.outcome = "panic"]

\* A push that drops the element.
PushDropsElement(list, e) == list

\* A push at the front.
PushInFront(list, e) == <<e>> \o list

\* Vec::push
Push(list, e) == Append(list, e)

Frame(f) == [fn |-> f, pc |-> "start"]
ExpectFrame(kind) == [fn |-> "expect_next_token", pc |-> "start", kind |-> kind]
ExpressionFrame(precedence) ==
    [fn |-> "parse_expression", pc |-> "start", precedence |-> precedence, exp |-> Null]

\* expect_next_token with the test inverted.
ExpectNextTokenAdvancesAlways(m, kind) ==
    Returns(NextToken(m), BoolResult(m.nxt.k = kind))

\* Parser::expect_next_token
ExpectNextToken(m, kind) ==
    IF m.nxt.k = kind
    THEN Returns(NextToken(m), BoolResult(TRUE))
    ELSE Returns(m, BoolResult(FALSE))

expect_next_token ==
    /\ At("expect_next_token")
    /\ Commit(ExpectNextToken(M, Top.kind))

\* Parser::new: the two calls of next_token that prime the cursor; the driver
\* then calls parse_program.
new ==
    /\ At("new")
    /\ Commit(IF Top.pc = "start"
              THEN Continue(NextToken(M), [Top EXCEPT !.pc = "second"])
              ELSE Continue(NextToken(M),
                            [fn |-> "parse_program", pc |-> "loop", statements |-> <<>>]))

parse_program ==
    /\ At("parse_program")
    /\ Commit(
        CASE Top.pc = "loop" ->
                IF cur.k = "EOF"
                THEN [M EXCEPT !.stack = <<>>, !.outcome = "ok", !.result = OkList(Top.statements)]
                ELSE Call(M, [Top EXCEPT !.pc = "push"], Frame("parse_statement"))
          [] Top.pc = "push" ->
                IF ret.st = "err"
                THEN [M EXCEPT !.stack = <<>>, !.outcome = "err", !.result = ret]
                ELSE Continue(NextToken(M),
                              [Top EXCEPT !.pc = "loop",
                                          !.statements = Push(@, ret.v)]))

parse_statement ==
    /\ At("parse_statement")
    /\ Commit(
        CASE Top.pc = "start" ->
                Call(M, [Top EXCEPT !.pc = "ret"],
                     CASE cur.k = "LET" ->
                            [fn |-> "parse_let_statement", pc |-> "start", identifier |-> Null]
                       [] cur.k = "RETURN" ->
                            [fn |-> "parse_return_statement", pc |-> "start", value |-> Null]
                       [] OTHER -> Frame("parse_expression_statement"))
          [] Top.pc = "ret" -> Returns(M, ret))

\* Err(Errors::TokenInvalid(self.next_token.clone())) in parse_let_statement
LetError(m) == Err(m.nxt)

parse_let_statement ==
    /\ At("parse_let_statement")
    /\ Commit(
        CASE Top.pc = "start" -> Continue(NextToken(M), [Top EXCEPT !.pc = "ident"])
          [] Top.pc = "ident" ->
                IF cur.k # "IDENT"
                THEN Returns(M, LetError(M))
                ELSE Call(M, [Top EXCEPT !.pc = "ident2"], ExpectFrame("IDENT"))
          [] Top.pc = "ident2" ->
                IF ret.b
                THEN Returns(M, LetError(M))
                ELSE Call(M, [Top EXCEPT !.pc = "assign", !.identifier = Identifier(cur.l)],
                          ExpectFrame("ASSIGN"))
          [] Top.pc = "assign" ->
                IF ~ret.b
                THEN Returns(M, LetError(M))
                ELSE Call(NextToken(M), [Top EXCEPT !.pc = "value"], ExpressionFrame(LOWEST))
          [] Top.pc = "value" ->
                IF ret.st = "err"
                THEN Returns(M, ret)
                ELSE Returns(IF nxt.k = "SEMICOLON" THEN NextToken(M) ELSE M,
                             Ok(LetStatement(Top.identifier, ret.v))))

\* The condition under which the terminator-seeking loop goes on.
ReturnLoopGoesOn(m) == m.cur.k # "SEMICOLON"

parse_return_statement ==
    /\ At("parse_return_statement")
    /\ Commit(
        CASE Top.pc = "start" ->
                Call(NextToken(M), [Top EXCEPT !.pc = "value"], ExpressionFrame(LOWEST))
          [] Top.pc = "value" ->
                IF ret.st = "err"
                THEN Returns(M, ret)
                ELSE Continue(M, [Top EXCEPT !.pc = "loop", !.value = ret.v])
          [] Top.pc = "loop" ->
                IF ReturnLoopGoesOn(M)
                THEN NextToken(M)
                ELSE Returns(M, Ok(Return(Top.value))))

parse_expression_statement ==
    /\ At("parse_expression_statement")
    /\ Commit(
        CASE Top.pc = "start" -> Call(M, [Top EXCEPT !.pc = "value"], ExpressionFrame(LOWEST))
          [] Top.pc = "value" ->
                IF ret.st = "err"
                THEN Returns(M, ret)
                ELSE Returns(IF nxt.k = "SEMICOLON" THEN NextToken(M) ELSE M,
                             Ok(ExpressionStatement(ret.v))))


\* The expression loop with <= in place of <.
ContinuesExpressionAtEqualRank(m, precedence) ==
    m.nxt.k # "SEMICOLON" /\ precedence <= GetPrecedence(m.nxt)

\* The condition of the loop of parse_expression.
ContinuesExpression(m, precedence) ==
    m.nxt.k # "SEMICOLON" /\ precedence < GetPrecedence(m.nxt)

\* parse_integer: str::parse::<i32>() of a digit text is Ok within the i32
\* range, and unwrap() panics on its Err.
IntegerFits(l) ==
    LET ds == StripZeros(l)
    IN  Len(ds) < Len(I32MaxDigits) \/ (Len(ds) = Len(I32MaxDigits) /\ DigitsLeq(ds, I32MaxDigits))

parse_expression ==
    /\ At("parse_expression")
    /\ Commit(
        CASE Top.pc = "start" ->
                CASE cur.k = "IDENT" -> Continue(M, [Top EXCEPT !.pc = "loop", !.exp = Identifier(cur.l)])
                  [] cur.k = "STRING" -> Continue(M, [Top EXCEPT !.pc = "loop", !.exp = String(cur.l)])
                  [] cur.k = "INT" ->
                        IF IntegerFits(cur.l)
                        THEN Continue(M, [Top EXCEPT !.pc = "loop", !.exp = Integer(DigitsValue(cur.l))])
                        ELSE Panics(M)
                  [] cur.k = "TRUE" -> Continue(M, [Top EXCEPT !.pc = "loop", !.exp = Bool(TRUE)])
                  [] cur.k = "FALSE" -> Continue(M, [Top EXCEPT !.pc = "loop", !.exp = Bool(FALSE)])
                  [] cur.k = "IF" ->
                        Call(M, [Top EXCEPT !.pc = "got"],
                             [fn |-> "parse_if_expression", pc |-> "start",
                              condition |-> NoResult, consequence |-> Null])
                  [] cur.k = "LPAREN" ->
                        Call(M, [Top EXCEPT !.pc = "got"],
                             [fn |-> "parse_grouped_expression", pc |-> "start", lparen |-> Null])
                  [] cur.k = "LBRACE" ->
                        Call(M, [Top EXCEPT !.pc = "got"],
                             [fn |-> "parse_hash_literal", pc |-> "loop",
                              pairs |-> <<>>, key |-> Null])
                  [] cur.k = "LBRACKET" ->
                        Call(M, [Top EXCEPT !.pc = "got"], Frame("parse_array_literal"))
                  [] cur.k = "FUNCTION" ->
                        Call(M, [Top EXCEPT !.pc = "got"],
                             [fn |-> "parse_function_expression", pc |-> "start",
                              parameters |-> <<>>])
                  [] cur.k \in {"BANG", "MINUS"} ->
                        Call(M, [Top EXCEPT !.pc = "got"],
                             [fn |-> "parse_prefix_expression", pc |-> "start",
                              operator |-> "?"])
                  [] OTHER -> Returns(M, Err(cur))
          [] Top.pc = "got" ->
                IF ret.st = "err"
                THEN Returns(M, ret)
                ELSE Continue(M, [Top EXCEPT !.pc = "loop", !.exp = ret.v])
          [] Top.pc = "loop" ->
                IF ContinuesExpression(M, Top.precedence)
                THEN CASE nxt.k \in BinaryKinds ->
                            Call(NextToken(M), [Top EXCEPT !.pc = "got"],
                                 [fn |-> "parse_infix_expression", pc |-> "start",
                                  left |-> Top.exp, operator |-> "?"])
                       [] nxt.k = "LPAREN" ->
                            Call(NextToken(M), [Top EXCEPT !.pc = "got"],
                                 [fn |-> "parse_call_arguments", pc |-> "start",
                                  func |-> Top.exp, arguments |-> <<>>])
                       [] nxt.k = "LBRACKET" ->
                            Call(NextToken(M), [Top EXCEPT !.pc = "got"],
                                 [fn |-> "parse_index_expression", pc |-> "start",
                                  left |-> Top.exp, index |-> Null])
                       [] OTHER -> Returns(M, Ok(Top.exp))
                ELSE Returns(M, Ok(Top.exp)))

\* A hash literal that keeps its pairs in source order.
InsertPairInSourceOrder(pairs, k, v) == Append(pairs, <<k, v>>)

\* pairs.insert(Box::new(key), Box::new(value))
InsertPair(pairs, k, v) == BTreeInsert(pairs, k, v)

parse_hash_literal ==
    /\ At("parse_hash_literal")
    /\ Commit(
        CASE Top.pc = "loop" ->
                IF nxt.k # "RBRACE"
                THEN Call(NextToken(M), [Top EXCEPT !.pc = "key"], ExpressionFrame(LOWEST))
                ELSE Call(M, [Top EXCEPT !.pc = "close"], ExpectFrame("RBRACE"))
          [] Top.pc = "key" ->
                IF ret.st = "err"
                THEN Returns(M, ret)
                ELSE Call(M, [Top EXCEPT !.pc = "colon", !.key = ret.v], ExpectFrame("COLON"))
          [] Top.pc = "colon" ->
                IF ~ret.b
                THEN Returns(M, Ok(Null))
                ELSE Call(NextToken(M), [Top EXCEPT !.pc = "value"], ExpressionFrame(LOWEST))
          [] Top.pc = "value" ->
                IF ret.st = "err"
                THEN Returns(M, ret)
                ELSE LET f == [Top EXCEPT !.pairs = InsertPair(@, Top.key, ret.v)]
                     IN  IF nxt.k # "RBRACE"
                         THEN Call(M, [f EXCEPT !.pc = "comma"], ExpectFrame("COMMA"))
                         ELSE Continue(M, [f EXCEPT !.pc = "loop"])
          [] Top.pc = "comma" ->
                IF ~ret.b
                THEN Returns(M, Ok(Null))
                ELSE Continue(M, [Top EXCEPT !.pc = "loop"])
          [] Top.pc = "close" ->
                IF ~ret.b
                THEN Returns(M, Ok(Null))
                ELSE Returns(M, Ok(Hashmap(Top.pairs))))

parse_array_literal ==
    /\ At("parse_array_literal")
    /\ Commit(
        CASE Top.pc = "start" ->
                Call(M, [Top EXCEPT !.pc = "list"],
                     [fn |-> "parse_expression_list", pc |-> "start",
                      end |-> "RBRACKET", list |-> <<>>])
          [] Top.pc = "list" ->
                IF ret.st = "err"
                THEN Returns(M, ret)
                ELSE Returns(M, Ok(Array(ret.list))))

parse_expression_list ==
    /\ At("parse_expression_list")
    /\ Commit(
        CASE Top.pc = "start" ->
                IF nxt.k = Top.end
                THEN Returns(NextToken(M), OkList(Top.list))
                ELSE Call(NextToken(M), [Top EXCEPT !.pc = "item"], ExpressionFrame(LOWEST))
          [] Top.pc = "item" ->
                IF ret.st = "err"
                THEN Returns(M, ret)
                ELSE Continue(M, [Top EXCEPT !.pc = "loop", !.list = Push(@, ret.v)])
          [] Top.pc = "loop" ->
                IF nxt.k = "COMMA"
                THEN Continue(NextToken(M), [Top EXCEPT !.pc = "comma"])
                ELSE Call(M, [Top EXCEPT !.pc = "close"], ExpectFrame(Top.end))
          [] Top.pc = "comma" ->
                Call(NextToken(M), [Top EXCEPT !.pc = "item"], ExpressionFrame(LOWEST))
          [] Top.pc = "close" ->
                IF ret.b
                THEN Returns(M, OkList(Top.list))
                ELSE Panics(M))

parse_index_expression ==
    /\ At("parse_index_expression")
    /\ Commit(
        CASE Top.pc = "start" ->
                Call(NextToken(M), [Top EXCEPT !.pc = "index"], ExpressionFrame(LOWEST))
          [] Top.pc = "index" ->
                IF ret.st = "err"
                THEN Returns(M, ret)
                ELSE Call(M, [Top EXCEPT !.pc = "close", !.index = ret.v],
                          ExpectFrame("RBRACKET"))
          [] Top.pc = "close" ->
                IF ~ret.b
                THEN Returns(M, Ok(Null))
                ELSE Returns(M, Ok(IndexExpression(Top.left, Top.index))))

parse_grouped_expression ==
    /\ At("parse_grouped_expression")
    /\ Commit(
        CASE Top.pc = "start" ->
                Call(NextToken(M), [Top EXCEPT !.pc = "inner"], ExpressionFrame(LOWEST))
          [] Top.pc = "inner" ->
                IF ret.st = "err"
                THEN Returns(M, ret)
                ELSE Call(M, [Top EXCEPT !.pc = "close", !.lparen = ret.v],
                          ExpectFrame("RPAREN"))
          [] Top.pc = "close" ->
                IF ret.b
                THEN Returns(M, Ok(Top.lparen))
                ELSE Returns(M, Err(cur)))

parse_if_expression ==
    /\ At("parse_if_expression")
    /\ Commit(
        CASE Top.pc = "start" ->
                IF nxt.k # "LPAREN"
                THEN Returns(M, Ok(Null))
                ELSE Call(NextToken(M), [Top EXCEPT !.pc = "condition"],
                          ExpressionFrame(LOWEST))
          [] Top.pc = "condition" ->
                \* no `?` here: the result, Ok or Err, is kept
                Call(M, [Top EXCEPT !.pc = "lbrace", !.condition = ret], ExpectFrame("LBRACE"))
          [] Top.pc = "lbrace" ->
                IF ~ret.b
                THEN Returns(M, Ok(Null))
                ELSE IF Top.condition.st = "err"
                THEN Returns(M, Top.condition)
                ELSE Call(M, [Top EXCEPT !.pc = "consequence"],
                          [fn |-> "parse_block_statements", pc |-> "start",
                           statements |-> <<>>])
          [] Top.pc = "consequence" ->
                IF ret.st = "err"
                THEN Returns(M, ret)
                ELSE Call(M, [Top EXCEPT !.pc = "alternative", !.consequence = ret.v],
                          Frame("alternative"))
          [] Top.pc = "alternative" ->
                IF ret.st = "err"
                THEN Returns(M, ret)
                ELSE Returns(M, Ok(IfExpression(Top.condition.v, Top.consequence, ret.v))))

\* A block whose loop goes on over a closing brace.
BlockLoopPassesBrace(m) == m.cur.k # "EOF"

\* The condition of the loop of parse_block_statements.
BlockLoopGoesOn(m) == m.cur.k # "RBRACE" /\ m.cur.k # "EOF"

\* Whether `else` follows, as alternative() tests it.
ElseFollows(m) == m.nxt.k = "ELSE"

parse_block_statements ==
    /\ At("parse_block_statements")
    /\ Commit(
        CASE Top.pc = "start" -> Continue(NextToken(M), [Top EXCEPT !.pc = "loop"])
          [] Top.pc = "loop" ->
                IF BlockLoopGoesOn(M)
                THEN Call(M, [Top EXCEPT !.pc = "push"], Frame("parse_statement"))
                ELSE Returns(M, Ok(Block(Top.statements)))
          [] Top.pc = "push" ->
                IF ret.st = "err"
                THEN Returns(M, ret)
                ELSE Continue(NextToken(M),
                              [Top EXCEPT !.pc = "loop", !.statements = Push(@, ret.v)]))

alternative ==
    /\ At("alternative")
    /\ Commit(
        CASE Top.pc = "start" ->
                IF ElseFollows(M)
                THEN Call(NextToken(M), [Top EXCEPT !.pc = "lbrace"], ExpectFrame("LBRACE"))
                ELSE Returns(M, Ok(None))
          [] Top.pc = "lbrace" ->
                IF ret.b
                THEN Call(M, [Top EXCEPT !.pc = "block"],
                          [fn |-> "parse_block_statements", pc |-> "start",
                           statements |-> <<>>])
                ELSE Returns(M, Err(cur))
          [] Top.pc = "block" ->
                IF ret.st = "err"
                THEN Returns(M, ret)
                ELSE Returns(M, Ok(ret.v)))

parse_function_expression ==
    /\ At("parse_function_expression")
    /\ Commit(
        CASE Top.pc = "start" ->
                Call(M, [Top EXCEPT !.pc = "lparen"], ExpectFrame("LPAREN"))
          [] Top.pc = "lparen" ->
                \* the result of the expectation only decides a println!
                Call(M, [Top EXCEPT !.pc = "parameters"],
                     [fn |-> "parse_function_parameters", pc |-> "start",
                      identifiers |-> <<>>])
          [] Top.pc = "parameters" ->
                IF ret.st = "err"
                THEN Returns(M, ret)
                ELSE Call(M, [Top EXCEPT !.pc = "lbrace", !.parameters = ret.list],
                          ExpectFrame("LBRACE"))
          [] Top.pc = "lbrace" ->
                Call(M, [Top EXCEPT !.pc = "body"],
                     [fn |-> "parse_block_statements", pc |-> "start", statements |-> <<>>])
          [] Top.pc = "body" ->
                IF ret.st = "err"
                THEN Returns(M, ret)
                ELSE Returns(M, Ok(FunctionLiteral(Top.parameters, ret.v))))

parse_function_parameters ==
    /\ At("parse_function_parameters")
    /\ Commit(
        CASE Top.pc = "start" ->
                IF nxt.k = "RPAREN"
                THEN Returns(NextToken(M), OkList(Top.identifiers))
                ELSE Continue(NextToken(M),
                              [Top EXCEPT !.pc = "loop",
                                          !.identifiers = Push(@, Identifier(nxt.l))])
          [] Top.pc = "loop" ->
                IF nxt.k = "COMMA"
                THEN Continue(NextToken(M), [Top EXCEPT !.pc = "comma"])
                ELSE Call(M, [Top EXCEPT !.pc = "close"], ExpectFrame("RPAREN"))
          [] Top.pc = "comma" ->
                Continue(NextToken(M),
                         [Top EXCEPT !.pc = "loop",
                                     !.identifiers = Push(@, Identifier(nxt.l))])
          [] Top.pc = "close" ->
                IF ~ret.b
                THEN Panics(M)
                ELSE Returns(M, OkList(Top.identifiers)))

parse_call_arguments ==
    /\ At("parse_call_arguments")
    /\ Commit(
        CASE Top.pc = "start" ->
                IF nxt.k = "RPAREN"
                THEN Returns(NextToken(M), Ok(CallExpression(Top.func, Top.arguments)))
                ELSE Call(NextToken(M), [Top EXCEPT !.pc = "item"], ExpressionFrame(LOWEST))
          [] Top.pc = "item" ->
                IF ret.st = "err"
                THEN Returns(M, ret)
                ELSE Continue(M, [Top EXCEPT !.pc = "loop", !.arguments = Push(@, ret.v)])
          [] Top.pc = "loop" ->
                IF nxt.k = "COMMA"
                THEN Continue(NextToken(M), [Top EXCEPT !.pc = "comma"])
                ELSE Call(M, [Top EXCEPT !.pc = "close"], ExpectFrame("RPAREN"))
          [] Top.pc = "comma" ->
                Call(NextToken(M), [Top EXCEPT !.pc = "item"], ExpressionFrame(LOWEST))
          [] Top.pc = "close" ->
                IF ~ret.b
                THEN Returns(M, Ok(Null))
                ELSE Returns(M, Ok(CallExpression(Top.func, Top.arguments))))

\* A prefix operator whose operand is a whole expression.
PrefixOperandAtLowest == LOWEST

\* The precedence parse_prefix_expression parses its operand at.
PrefixOperandPrecedence == PREFIX

parse_prefix_expression ==
    /\ At("parse_prefix_expression")
    /\ Commit(
        CASE Top.pc = "start" ->
                Call(NextToken(M), [Top EXCEPT !.pc = "right", !.operator = OperatorText(cur.k)],
                     ExpressionFrame(PrefixOperandPrecedence))
          [] Top.pc = "right" ->
                IF ret.st = "err"
                THEN Returns(M, ret)
                ELSE Returns(M, Ok(PrefixExpression(Top.operator, ret.v))))

\* let precedence = self.current_precedence(), the bound of the right operand.
RightOperandPrecedence(m) == GetPrecedence(m.cur)

parse_infix_expression ==
    /\ At("parse_infix_expression")
    /\ Commit(
        CASE Top.pc = "start" ->
                IF cur.k \in BinaryKinds
                THEN Call(NextToken(M),
                          [Top EXCEPT !.pc = "right", !.operator = OperatorText(cur.k)],
                          ExpressionFrame(RightOperandPrecedence(M)))
                ELSE Panics(M)
          [] Top.pc = "right" ->
                IF ret.st = "err"
                THEN Returns(M, ret)
                ELSE Returns(M, Ok(InfixExpression(Top.left, Top.operator, ret.v))))


(***************************************************************************)
(* The inputs.  Every input is a finite token stream; `src` records the    *)
(* family it was drawn from and the parts it was built of.                 *)
(***************************************************************************)
RECURSIVE Streams(_, _)
\* All streams of at most n tokens of the set `alphabet`.
Streams(alphabet, n) ==
    IF n = 0 THEN {<<>>}
    ELSE LET shorter == Streams(alphabet, n - 1)
         IN  shorter \cup {Append(s, t) : s \in shorter, t \in alphabet}

RECURSIVE Flatten(_)
\* The concatenation of a sequence of streams.
Flatten(ss) == IF ss = <<>> THEN <<>> ELSE Head(ss) \o Flatten(Tail(ss))

\* Longest stream of the exhaustive family.
MaxLen == 3
\* Most tokens after `let` in the family of let statements.
MaxLetLen == 3

AnyAlphabet ==
    {Id(1), Tok("INT", TooBigDigits), T("RETURN"), T("SEMICOLON"), T("LBRACKET"), T("RBRACKET"),
     T("FUNCTION"), T("LPAREN"), T("RPAREN")}

LetAlphabet == {Id(1), Id(2), Num(5), T("ASSIGN"), T("SEMICOLON"), T("PLUS")}

AnyInputs == {[fam |-> "any", toks |-> s] : s \in Streams(AnyAlphabet, MaxLen)}

LetInputs ==
    {[fam |-> "let", toks |-> <<T("LET")>> \o s] : s \in Streams(LetAlphabet, MaxLetLen)}

\* Most statements of a program of the family of well-formed statements.
MaxStmts == 3
\* Most operators of a chain of operands.
MaxOps == 3
\* Most elements of an argument list or of an array literal.
MaxArgs == 3
\* Most pairs of a hash literal.
MaxPairs == 3

\* The family of well-formed statements: let x = E; return E; E; with E one of
\* 5 and fn (x) { return x; }
StatementValues ==
    {<<Num(5)>>,
     <<T("FUNCTION"), T("LPAREN"), Id(24), T("RPAREN"), T("LBRACE"),
       T("RETURN"), Id(24), T("SEMICOLON"), T("RBRACE")>>}

StatementChoices ==
    {[kind |-> "LetStatement",
      toks |-> <<T("LET"), Id(24), T("ASSIGN")>> \o e \o <<T("SEMICOLON")>>] : e \in StatementValues}
    \cup {[kind |-> "Return", toks |-> <<T("RETURN")>> \o e \o <<T("SEMICOLON")>>] : e \in StatementValues}
    \cup {[kind |-> "ExpressionStatement", toks |-> e \o <<T("SEMICOLON")>>] : e \in StatementValues}

StatementInputs ==
    {[fam |-> "statements",
      toks |-> Flatten([i \in 1..Len(cs) |-> cs[i].toks]),
      kinds |-> [i \in 1..Len(cs) |-> cs[i].kind]] : cs \in Streams(StatementChoices, MaxStmts)}

\* The family of chains: a op b op c ..., the operands being the names a, b, c, ...
Chain(ops) == <<Id(1)>> \o Flatten([i \in 1..Len(ops) |-> <<T(ops[i]), Id(i + 1)>>])

ChainInputs ==
    {[fam |-> "chain", toks |-> Chain(ops)] : ops \in Streams(BinaryKinds, MaxOps) \ {<<>>}}

\* One operator of each rank.
RankKinds == {"EQ", "LT", "PLUS", "ASTERISK"}

\* Chains with a parenthesized group as an operand.
GroupInputs ==
    {[fam |-> "chain",
      toks |-> <<Id(1), T(o[1]), T("LPAREN"), Id(2), T(o[2]), Id(3), T("RPAREN"), T(o[3]), Id(4)>>]
        : o \in RankKinds \X RankKinds \X RankKinds}
    \cup {[fam |-> "chain",
           toks |-> <<T("LPAREN"), Id(1), T(o[1]), Id(2), T("RPAREN"), T(o[2]), Id(3)>>]
        : o \in RankKinds \X RankKinds}
    \cup {[fam |-> "chain",
           toks |-> <<Id(1), T(o[1]), T("LPAREN"), Id(2), T(o[2]), Id(3), T("RPAREN")>>]
        : o \in RankKinds \X RankKinds}

\* Prefix operators in front of an operand that a binary operator, a call or
\* an index follows.
PrefixHeads == {<<T("MINUS")>>, <<T("BANG")>>, <<T("BANG"), T("MINUS")>>, <<T("MINUS"), T("MINUS")>>}
PrefixTails ==
    {<<>>, <<T("LPAREN"), T("RPAREN")>>, <<T("LPAREN"), Id(2), T("RPAREN")>>,
     <<T("LBRACKET"), Id(2), T("RBRACKET")>>,
     <<T("LPAREN"), Id(2), T("RPAREN"), T("ASTERISK"), Id(3)>>}
    \cup {<<T(o), Id(2)>> : o \in BinaryKinds}
    \cup {<<T(o), T("MINUS"), Id(2)>> : o \in BinaryKinds}

PrefixInputs ==
    {[fam |-> "unary", toks |-> h \o <<Id(1)>> \o t] : h \in PrefixHeads, t \in PrefixTails}

\* A call or an index applied to an operand inside a chain:
\* a op BASE POSTFIX op d
PostfixBases ==
    {<<Id(5)>>,
     <<T("LBRACKET"), Num(1), T("COMMA"), Num(2), T("COMMA"), Num(3), T("COMMA"), Num(4),
       T("RBRACKET")>>}
PostfixTails ==
    {<<T("LPAREN"), T("RPAREN")>>, <<T("LPAREN"), Id(2), T("COMMA"), Id(3), T("RPAREN")>>}
    \cup {<<T("LBRACKET"), Id(2), T(o), Id(3), T("RBRACKET")>> : o \in RankKinds}
    \cup {<<T("LPAREN"), Id(2), T(o), Id(3), T("RPAREN")>> : o \in RankKinds}

PostfixInputs ==
    {[fam |-> "unary",
      toks |-> <<Id(1), T(o[1])>> \o b \o t \o <<T(o[2]), Id(4)>>]
        : o \in RankKinds \X RankKinds, b \in PostfixBases, t \in PostfixTails}

\* Hash literals: pairwise distinct string keys in every source order, the
\* value of a pair fixed by its key ("a": 4, "b": 1, "c": 3, "d": 2).
HashKeys == {1, 2, 3, 4}
HashValue(k) == CASE k = 1 -> 4 [] k = 2 -> 1 [] k = 3 -> 3 [] OTHER -> 2

HashSource(ks) ==
    <<T("LBRACE")>>
    \o Flatten([i \in 1..Len(ks) |->
            <<Str(ks[i]), T("COLON"), Num(HashValue(ks[i]))>>
            \o (IF i < Len(ks) THEN <<T("COMMA")>> ELSE <<>>)])
    \o <<T("RBRACE")>>

HashInputs ==
    {[fam |-> "hash", toks |-> HashSource(ks), keys |-> ks]
        : ks \in {s \in Streams(HashKeys, MaxPairs) : \A i, j \in 1..Len(s) : i # j => s[i] # s[j]}}

\* Comma-separated lists: f(e1, ..., en) and [e1, ..., en]
ListElements ==
    {<<Num(1)>>, <<Num(2), T("ASTERISK"), Num(3)>>, <<Num(4), T("PLUS"), Num(5)>>}

ListSource(open, es, close) ==
    <<T(open)>>
    \o Flatten([i \in 1..Len(es) |-> es[i] \o (IF i < Len(es) THEN <<T("COMMA")>> ELSE <<>>)])
    \o <<T(close)>>

ListInputs ==
    {[fam |-> "call", toks |-> <<Id(6)>> \o ListSource("LPAREN", es, "RPAREN"), elems |-> es]
        : es \in Streams(ListElements, MaxArgs)}
    \cup {[fam |-> "array", toks |-> ListSource("LBRACKET", es, "RBRACKET"), elems |-> es]
        : es \in Streams(ListElements, MaxArgs)}

\* The inputs of the tests of parser.rs.
ExampleStreams == {
    \* test_let_statement: let x = 5; let y = 10; let foobar = 838383;
    <<
     T("LET"), Tok("IDENT", <<24>>), T("ASSIGN"), Tok("INT", <<5>>), T("SEMICOLON"),
      T("LET"), Tok("IDENT", <<25>>), T("ASSIGN"), Tok("INT", <<1, 0>>), T("SEMICOLON"),
      T("LET"), Tok("IDENT", <<6, 15, 15, 2, 1, 18>>), T("ASSIGN"),
      Tok("INT", <<8, 3, 8, 3, 8, 3>>), T("SEMICOLON")
    >>,
    \* test_return_statement: return 5; return 10; return 993322;
    <<
     T("RETURN"), Tok("INT", <<5>>), T("SEMICOLON"), T("RETURN"), Tok("INT", <<1, 0>>),
      T("SEMICOLON"), T("RETURN"), Tok("INT", <<9, 9, 3, 3, 2, 2>>), T("SEMICOLON")
    >>,
    \* test_identifier_expression: foobar;
    <<
     Tok("IDENT", <<6, 15, 15, 2, 1, 18>>), T("SEMICOLON")
    >>,
    \* test_interger_expression: 5
    <<
     Tok("INT", <<5>>)
    >>,
    \* test_prefix_expression: !5
    <<
     T("BANG"), Tok("INT", <<5>>)
    >>,
    \* test_prefix_expression: -15
    <<
     T("MINUS"), Tok("INT", <<1, 5>>)
    >>,
    \* test_infix_expression: 5 != 5;
    <<
     Tok("INT", <<5>>), T("NotEq"), Tok("INT", <<5>>), T("SEMICOLON")
    >>,
    \* test_operator_precedence_parsing: ((-a) * b)
    <<
     T("LPAREN"), T("LPAREN"), T("MINUS"), Tok("IDENT", <<1>>), T("RPAREN"), T("ASTERISK"),
      Tok("IDENT", <<2>>), T("RPAREN")
    >>,
    \* test_operator_precedence_parsing: (!(-a))
    <<
     T("LPAREN"), T("BANG"), T("LPAREN"), T("MINUS"), Tok("IDENT", <<1>>), T("RPAREN"),
      T("RPAREN")
    >>,
    \* test_operator_precedence_parsing: (1 + (2 + 3)) + 4
    <<
     T("LPAREN"), Tok("INT", <<1>>), T("PLUS"), T("LPAREN"), Tok("INT", <<2>>), T("PLUS"),
      Tok("INT", <<3>>), T("RPAREN"), T("RPAREN"), T("PLUS"), Tok("INT", <<4>>)
    >>,
    \* test_operator_precedence_parsing: (!(true == true))
    <<
     T("LPAREN"), T("BANG"), T("LPAREN"), T("TRUE"), T("EQ"), T("TRUE"), T("RPAREN"),
      T("RPAREN")
    >>,
    \* test_operator_precedence_parsing: ((a * ([1, 2, 3, 4][(b * c)])) * d)
    <<
     T("LPAREN"), T("LPAREN"), Tok("IDENT", <<1>>), T("ASTERISK"), T("LPAREN"),
      T("LBRACKET"), Tok("INT", <<1>>), T("COMMA"), Tok("INT", <<2>>), T("COMMA"),
      Tok("INT", <<3>>), T("COMMA"), Tok("INT", <<4>>), T("RBRACKET"), T("LBRACKET"),
      T("LPAREN"), Tok("IDENT", <<2>>), T("ASTERISK"), Tok("IDENT", <<3>>), T("RPAREN"),
      T("RBRACKET"), T("RPAREN"), T("RPAREN"), T("ASTERISK"), Tok("IDENT", <<4>>),
      T("RPAREN")
    >>,
    \* test_bool_infix_expression: 3 > 5 == false
    <<
     Tok("INT", <<3>>), T("GT"), Tok("INT", <<5>>), T("EQ"), T("FALSE")
    >>,
    \* test_if_expression: if (1 > 2) {10} else {20}
    <<
     T("IF"), T("LPAREN"), Tok("INT", <<1>>), T("GT"), Tok("INT", <<2>>), T("RPAREN"),
      T("LBRACE"), Tok("INT", <<1, 0>>), T("RBRACE"), T("ELSE"), T("LBRACE"),
      Tok("INT", <<2, 0>>), T("RBRACE")
    >>,
    \* test_function_expression: fn (x, y) {x + y}
    <<
     T("FUNCTION"), T("LPAREN"), Tok("IDENT", <<24>>), T("COMMA"), Tok("IDENT", <<25>>),
      T("RPAREN"), T("LBRACE"), Tok("IDENT", <<24>>), T("PLUS"), Tok("IDENT", <<25>>),
      T("RBRACE")
    >>,
    \* test_call_expression: add(1, 2 * 3, 4 + 5);
    <<
     Tok("IDENT", <<1, 4, 4>>), T("LPAREN"), Tok("INT", <<1>>), T("COMMA"),
      Tok("INT", <<2>>), T("ASTERISK"), Tok("INT", <<3>>), T("COMMA"), Tok("INT", <<4>>),
      T("PLUS"), Tok("INT", <<5>>), T("RPAREN"), T("SEMICOLON")
    >>,
    \* test_string_literal_expression: "Hello world;"
    <<
     Tok("STRING", <<8, 5, 12, 12, 15, 28, 23, 15, 18, 12, 4, 29>>)
    >>,
    \* test_parse_array_literals: [1, 2 * 2, 3 + 3]
    <<
     T("LBRACKET"), Tok("INT", <<1>>), T("COMMA"), Tok("INT", <<2>>), T("ASTERISK"),
      Tok("INT", <<2>>), T("COMMA"), Tok("INT", <<3>>), T("PLUS"), Tok("INT", <<3>>),
      T("RBRACKET")
    >>,
    \* test_parse_index_expressions: my_array[1 + 1]
    <<
     Tok("IDENT", <<13, 25, 27, 1, 18, 18, 1, 25>>), T("LBRACKET"), Tok("INT", <<1>>),
      T("PLUS"), Tok("INT", <<1>>), T("RBRACKET")
    >>,
    \* test_parse_hash_literal_string_keys: {"a": 4, "b": 1, "c": 3, "d": 2}
    <<
     T("LBRACE"), Tok("STRING", <<1>>), T("COLON"), Tok("INT", <<4>>), T("COMMA"),
      Tok("STRING", <<2>>), T("COLON"), Tok("INT", <<1>>), T("COMMA"),
      Tok("STRING", <<3>>), T("COLON"), Tok("INT", <<3>>), T("COMMA"),
      Tok("STRING", <<4>>), T("COLON"), Tok("INT", <<2>>), T("RBRACE")
    >>,
    \* test_parse_empty_hash_literal: {}
    <<
     T("LBRACE"), T("RBRACE")
    >>,
    \* test_parse_hash_literal_with_expressions: {"one": 0 + 1, "two": 10-8, "three": 15 / 5}
    <<
     T("LBRACE"), Tok("STRING", <<15, 14, 5>>), T("COLON"), Tok("INT", <<0>>), T("PLUS"),
      Tok("INT", <<1>>), T("COMMA"), Tok("STRING", <<20, 23, 15>>), T("COLON"),
      Tok("INT", <<1, 0>>), T("MINUS"), Tok("INT", <<8>>), T("COMMA"),
      Tok("STRING", <<20, 8, 18, 5, 5>>), T("COLON"), Tok("INT", <<1, 5>>), T("SLASH"),
      Tok("INT", <<5>>), T("RBRACE")
    >>
}

ExampleInputs == {[fam |-> "example", toks |-> s] : s \in ExampleStreams}

\* The parser struct as Parser::new builds it, before it primes the cursor.
\* Groups that are not closed: `(` inner, then a token that is not `)` and
\* that does not go on with the inner expression, or the end of the input.
\* The group is a statement, the right operand of an operator, an argument
\* of a call, or the condition of an if.
UnclosedContexts ==
    {<<>>, <<Id(1), T("PLUS")>>, <<Id(6), T("LPAREN")>>, <<T("IF")>>}
UnclosedInners ==
    {<<Id(2)>>, <<Id(2), T("ASTERISK"), Id(3)>>, <<T("LPAREN"), Id(2), T("RPAREN")>>}
UnclosedFollowers ==
    {<<>>, <<T("SEMICOLON")>>, <<Id(4)>>, <<T("RBRACKET")>>, <<T("COMMA"), Id(4), T("RPAREN")>>,
     <<T("LBRACE"), Id(4), T("RBRACE")>>, <<T("SEMICOLON"), Id(4), T("RPAREN")>>}
UnclosedInputs ==
    {[fam |-> "unclosed",
      toks |-> context \o <<T("LPAREN")>> \o inner \o follower,
      at |-> Len(context) + 1 + Len(inner) + 1]
        : context \in UnclosedContexts, inner \in UnclosedInners,
          follower \in UnclosedFollowers}

\* Function literals: `fn`, a parameter list of up to MaxParams tokens, each
\* an identifier or an integer, with or without its `(`, and a body with or
\* without its `{`.
MaxParams == 2
ParamTokens == {Id(1), Id(2), Tok("INT", <<5>>)}
FunctionBodies == {<<>>, <<Id(3), T("SEMICOLON")>>}
FunctionSource(lparen, params, lbrace, body) ==
    <<T("FUNCTION")>>
    \o (IF lparen THEN <<T("LPAREN")>> ELSE <<>>)
    \o Flatten([i \in 1..Len(params) |->
                    <<params[i]>> \o (IF i < Len(params) THEN <<T("COMMA")>> ELSE <<>>)])
    \o <<T("RPAREN")>>
    \o (IF lbrace THEN <<T("LBRACE")>> ELSE <<>>)
    \o body
    \o <<T("RBRACE")>>
FunctionInputs ==
    {[fam |-> "function",
      toks |-> FunctionSource(lparen, params, lbrace, body),
      lparen |-> lparen, params |-> params, lbrace |-> lbrace, body |-> body]
        : lparen \in BOOLEAN, params \in Streams(ParamTokens, MaxParams),
          lbrace \in BOOLEAN, body \in FunctionBodies}

\* If expressions: `if ( cond ) {` up to MaxBlock statements `}`, followed by
\* nothing or a token that is not `else`, by `else {` statements `}`, or by
\* `else` and no `{`; and the same with the `}` of the consequence left out at
\* the end of the input. Each piece of source comes with the node it denotes.
MaxBlock == 2
IfConditions ==
    {[toks |-> <<Id(1)>>, node |-> Identifier(<<1>>)],
     [toks |-> <<Id(1), T("LT"), Id(2)>>,
      node |-> InfixExpression(Identifier(<<1>>), "<", Identifier(<<2>>))]}
NestedIf ==
    [toks |-> <<T("IF"), T("LPAREN"), Id(7), T("RPAREN"), T("LBRACE"), Id(8), T("RBRACE")>>,
     node |-> ExpressionStatement(
                IfExpression(Identifier(<<7>>),
                             Block(<<ExpressionStatement(Identifier(<<8>>))>>), None))]
BlockStatements ==
    {[toks |-> <<Id(3), T("SEMICOLON")>>, node |-> ExpressionStatement(Identifier(<<3>>))],
     [toks |-> <<T("LET"), Id(4), T("ASSIGN"), Num(1), T("SEMICOLON")>>,
      node |-> LetStatement(Identifier(<<4>>), Integer(1))],
     [toks |-> <<T("RETURN"), Id(5), T("SEMICOLON")>>, node |-> Return(Identifier(<<5>>))],
     NestedIf,
     [toks |-> <<T("LBRACE"), Str(6), T("COLON"), Num(2), T("RBRACE")>>,
      node |-> ExpressionStatement(Hashmap(<<<<String(<<6>>), Integer(2)>>>>))]}
ElseStatements ==
    {[toks |-> <<Id(3)>>, node |-> ExpressionStatement(Identifier(<<3>>))], NestedIf}
IfTails == {<<>>, <<T("SEMICOLON")>>, <<Id(9)>>}
ElseWithoutBrace == {<<T("ELSE")>>, <<T("ELSE"), Id(9)>>}
IfHead(c, ss) ==
    <<T("IF"), T("LPAREN")>> \o c.toks \o <<T("RPAREN"), T("LBRACE")>>
    \o Flatten([i \in 1..Len(ss) |-> ss[i].toks])
NodesOf(ss) == [i \in 1..Len(ss) |-> ss[i].node]
IfInputs ==
    {[fam |-> "if", toks |-> IfHead(c, ss) \o <<T("RBRACE")>> \o tail, form |-> "if",
      condition |-> c.node, consequence |-> NodesOf(ss), alternative |-> None]
        : c \in IfConditions, ss \in Streams(BlockStatements, MaxBlock), tail \in IfTails}
    \cup
    {[fam |-> "if", toks |-> IfHead(c, ss), form |-> "open",
      condition |-> c.node, consequence |-> NodesOf(ss), alternative |-> None]
        : c \in IfConditions, ss \in Streams(BlockStatements, MaxBlock)}
    \cup
    {[fam |-> "if",
      toks |-> IfHead(c, ss) \o <<T("RBRACE"), T("ELSE"), T("LBRACE")>>
               \o Flatten([i \in 1..Len(ts) |-> ts[i].toks]) \o <<T("RBRACE")>>,
      form |-> "else",
      condition |-> c.node, consequence |-> NodesOf(ss), alternative |-> Block(NodesOf(ts))]
        : c \in IfConditions, ss \in Streams(BlockStatements, MaxBlock),
          ts \in Streams(ElseStatements, MaxBlock)}
    \cup
    {[fam |-> "if", toks |-> IfHead(c, ss) \o <<T("RBRACE")>> \o tail, form |-> "else without {",
      condition |-> c.node, consequence |-> NodesOf(ss), alternative |-> None]
        : c \in IfConditions, ss \in Streams(BlockStatements, MaxBlock),
          tail \in ElseWithoutBrace}

Constructed ==
    /\ tokens = src.toks
    /\ lexpos = 0
    /\ cur = DefaultTok
    /\ nxt = DefaultTok
    /\ stack = <<Frame("new")>>
    /\ ret = NoResult
    /\ outcome = "running"
    /\ result = NoResult
    /\ pass = 1
    /\ rendered = <<>>

Init ==
    /\ \/ src \in AnyInputs
       \/ src \in LetInputs
       \/ src \in StatementInputs
       \/ src \in ChainInputs
       \/ src \in GroupInputs
       \/ src \in PrefixInputs
       \/ src \in PostfixInputs
       \/ src \in HashInputs
       \/ src \in ListInputs
       \/ src \in ExampleInputs
       \/ src \in UnclosedInputs
       \/ src \in FunctionInputs
       \/ src \in IfInputs
    /\ Constructed

(***************************************************************************)
(* Rendering (the Display of ast.rs) followed by lexing: the tokens of the *)
(* canonical text of a node.  The tests of parser.rs fix the text of these *)
(* nodes: "return 5", "foobar", "5", "true", "-a", "!-a", "a + b * c",     *)
(* "[1, 2 * 2, 3 + 3]", "my_array[1 + 1]".                                 *)
(***************************************************************************)
RECURSIVE DigitsOf(_)
\* The decimal digits of a natural number.
DigitsOf(i) == IF i < 10 THEN <<i>> ELSE Append(DigitsOf(i \div 10), i % 10)

\* The kind of the token an operator text lexes to.
OperatorKind(op) ==
    CASE op = "+" -> "PLUS"
      [] op = "-" -> "MINUS"
      [] op = "*" -> "ASTERISK"
      [] op = "/" -> "SLASH"
      [] op = "==" -> "EQ"
      [] op = "!=" -> "NotEq"
      [] op = "<" -> "LT"
      [] op = ">" -> "GT"
      [] op = "!" -> "BANG"

RECURSIVE Renderable(_), RenderableAll(_), Render(_), RenderAll(_)
\* The nodes whose canonical text the tests fix.
Renderable(e) ==
    CASE e.t \in {"Identifier", "Integer", "Bool"} -> TRUE
      [] e.t = "PrefixExpression" -> Renderable(e.right)
      [] e.t = "InfixExpression" -> Renderable(e.left) /\ Renderable(e.right)
      [] e.t = "Array" -> RenderableAll(e.elements)
      [] e.t = "IndexExpression" -> Renderable(e.array) /\ Renderable(e.subscript)
      [] e.t = "Return" -> Renderable(e.value)
      [] e.t = "ExpressionStatement" -> Renderable(e.expression)
      [] OTHER -> FALSE
RenderableAll(es) == \A i \in 1..Len(es) : Renderable(es[i])
Render(e) ==
    CASE e.t = "Identifier" -> <<Tok("IDENT", e.v)>>
      [] e.t = "Integer" -> <<Tok("INT", DigitsOf(e.i))>>
      [] e.t = "Bool" -> <<T(IF e.b THEN "TRUE" ELSE "FALSE")>>
      [] e.t = "PrefixExpression" -> <<T(OperatorKind(e.operator))>> \o Render(e.right)
      [] e.t = "InfixExpression" ->
            Render(e.left) \o <<T(OperatorKind(e.operator))>> \o Render(e.right)
      [] e.t = "Array" -> <<T("LBRACKET")>> \o RenderAll(e.elements) \o <<T("RBRACKET")>>
      [] e.t = "IndexExpression" ->
            Render(e.array) \o <<T("LBRACKET")>> \o Render(e.subscript) \o <<T("RBRACKET")>>
      [] e.t = "Return" -> <<T("RETURN")>> \o Render(e.value)
      [] e.t = "ExpressionStatement" -> Render(e.expression)
RenderAll(es) ==
    IF es = <<>> THEN <<>>
    ELSE IF Len(es) = 1 THEN Render(es[1])
    ELSE Render(es[1]) \o <<T("COMMA")>> \o RenderAll(Tail(es))

\* A program of one statement whose canonical text is known.
RenderableProgram(statements) == Len(statements) = 1 /\ Renderable(statements[1])

\* The round trip: the Program that the parse returned is rendered, and a new
\* parser is constructed over the lexer of that text.
Reparse ==
    /\ pass = 1
    /\ outcome = "ok"
    /\ RenderableProgram(result.list)
    /\ pass' = 2
    /\ rendered' = Render(result.list[1])
    /\ tokens' = rendered'
    /\ src' = [fam |-> "rendering", toks |-> rendered']
    /\ lexpos' = 0
    /\ cur' = DefaultTok
    /\ nxt' = DefaultTok
    /\ stack' = <<Frame("new")>>
    /\ ret' = NoResult
    /\ outcome' = "running"
    /\ result' = NoResult

Next ==
    \/ Reparse
    \/ new
    \/ expect_next_token
    \/ parse_program
    \/ parse_statement
    \/ parse_let_statement
    \/ parse_return_statement
    \/ parse_expression_statement
    \/ parse_expression
    \/ parse_hash_literal
    \/ parse_array_literal
    \/ parse_expression_list
    \/ parse_index_expression
    \/ parse_grouped_expression
    \/ parse_if_expression
    \/ parse_block_statements
    \/ alternative
    \/ parse_function_expression
    \/ parse_function_parameters
    \/ parse_call_arguments
    \/ parse_prefix_expression
    \/ parse_infix_expression

Spec == Init /\ [][Next]_vars

\* The parser takes a step whenever it can: it is a sequential program that
\* nothing suspends.
FairSpec == Spec /\ WF_vars(Next)

(***************************************************************************)
(* The claims.                                                             *)
(***************************************************************************)
\* The token at position i of the input, the EOF token past its end.
TokenAt(i) == IF i <= Len(tokens) THEN tokens[i] ELSE EOFTok

\* parse_program has ended: by a return or by a panic.
Ended == outcome # "running"

\* C1: on every finite token stream, parse_program ends by returning Ok(Program)
\* or Err(invalid token) and in no other way: it never panics, also not on an
\* unclosed array literal or parameter list, on `fn` without `(`, or on an
\* integer literal outside the i32 range.
C1_EndsWithOkOrErr ==
    Ended => \/ outcome = "ok" /\ \A i \in 1..Len(result.list) :
                    result.list[i].t \in {"LetStatement", "Return", "ExpressionStatement"}
             \/ outcome = "err" /\ result.tok \in {TokenAt(i) : i \in 1..(Len(tokens) + 1)}

\* C2: parse_program terminates on every finite token stream: every loop stops at
\* the end of the input at the latest, also the terminator-seeking loop of a
\* return statement whose value no semicolon follows.
C2_Terminates == <>Ended

(***************************************************************************)
(* The tree a token stream of an expression stands for, read off the       *)
(* grammar: the ranks of the binary operators, left associativity, prefix  *)
(* operators binding tighter than binary ones, calls and indexes tighter   *)
(* still.  An expression is split at its loosest binary operator outside   *)
(* all brackets, the rightmost one among equals.                           *)
(***************************************************************************)
Opens == {"LPAREN", "LBRACKET", "LBRACE"}
Closes == {"RPAREN", "RBRACKET", "RBRACE"}
OperandEnds == {"IDENT", "INT", "STRING", "TRUE", "FALSE"} \cup Closes

\* The brackets open in front of position i.
DepthBefore(toks, i) ==
    Cardinality({j \in 1..(i - 1) : toks[j].k \in Opens})
    - Cardinality({j \in 1..(i - 1) : toks[j].k \in Closes})

\* EQUALITY < RELATIONAL < SUM < PRODUCT
RankOf(k) ==
    CASE k \in {"EQ", "NotEq"} -> 1
      [] k \in {"LT", "GT"} -> 2
      [] k \in {"PLUS", "MINUS"} -> 3
      [] k \in {"ASTERISK", "SLASH"} -> 4

\* The positions of the binary operators outside all brackets (an operator
\* that follows an operand is binary, any other - or ! is a prefix).
BinaryAt(toks) ==
    {i \in 2..Len(toks) : /\ toks[i].k \in BinaryKinds
                          /\ toks[i - 1].k \in OperandEnds
                          /\ DepthBefore(toks, i) = 0}

SplitAt(toks) ==
    LET B == BinaryAt(toks)
    IN  CHOOSE i \in B : \A j \in B : \/ RankOf(toks[j].k) > RankOf(toks[i].k)
                                      \/ RankOf(toks[j].k) = RankOf(toks[i].k) /\ j <= i

\* The bracket that the closing bracket at the end of toks closes.
OpenOfLast(toks) ==
    CHOOSE j \in 1..Len(toks) :
        /\ toks[j].k \in Opens
        /\ DepthBefore(toks, j) = 0
        /\ \A i \in (j + 1)..Len(toks) : ~(toks[i].k \in Opens /\ DepthBefore(toks, i) = 0)

RECURSIVE Expected(_), ExpectedList(_)
Expected(toks) ==
    LET n == Len(toks)
    IN  IF BinaryAt(toks) # {}
        THEN LET i == SplitAt(toks)
             IN  InfixExpression(Expected(SubSeq(toks, 1, i - 1)), OperatorText(toks[i].k),
                                 Expected(SubSeq(toks, i + 1, n)))
        ELSE IF toks[1].k \in {"BANG", "MINUS"}
        THEN PrefixExpression(OperatorText(toks[1].k), Expected(Tail(toks)))
        ELSE IF n = 1
        THEN CASE toks[1].k = "IDENT" -> Identifier(toks[1].l)
               [] toks[1].k = "STRING" -> String(toks[1].l)
               [] toks[1].k = "INT" -> Integer(DigitsValue(toks[1].l))
               [] toks[1].k = "TRUE" -> Bool(TRUE)
               [] toks[1].k = "FALSE" -> Bool(FALSE)
        ELSE LET j == OpenOfLast(toks)
                 inner == SubSeq(toks, j + 1, n - 1)
             IN  CASE toks[n].k = "RPAREN" /\ j > 1 ->
                        CallExpression(Expected(SubSeq(toks, 1, j - 1)), ExpectedList(inner))
                   [] toks[n].k = "RBRACKET" /\ j > 1 ->
                        IndexExpression(Expected(SubSeq(toks, 1, j - 1)), Expected(inner))
                   [] toks[n].k = "RPAREN" /\ j = 1 -> Expected(inner)
                   [] toks[n].k = "RBRACKET" /\ j = 1 -> Array(ExpectedList(inner))
ExpectedList(toks) ==
    LET commas == {i \in 1..Len(toks) : toks[i].k = "COMMA" /\ DepthBefore(toks, i) = 0}
    IN  IF toks = <<>> THEN <<>>
        ELSE IF commas = {} THEN <<Expected(toks)>>
        ELSE LET i == CHOOSE c \in commas : \A d \in commas : c <= d
             IN  <<Expected(SubSeq(toks, 1, i - 1))>>
                 \o ExpectedList(SubSeq(toks, i + 1, Len(toks)))

\* C3: an input of n well-formed statements, each a let, a return or an expression
\* statement ended by a semicolon, is parsed to Ok with exactly n top-level
\* statements, the i-th of the variant of the i-th source statement.
C3_StatementsCountedInOrder ==
    (src.fam = "statements" /\ Ended) =>
        /\ outcome = "ok"
        /\ Len(result.list) = Len(src.kinds)
        /\ \A i \in 1..Len(src.kinds) : result.list[i].t = src.kinds[i]

\* C3's case: let; return; expression statement, parsed.
C3_Witness ==
    /\ src.fam = "statements"
    /\ src.kinds = <<"LetStatement", "Return", "ExpressionStatement">>
    /\ outcome = "ok"
    /\ Len(result.list) = 3

\* C4: a chain of operands joined by binary operators is parsed to the Infix tree
\* of the ranks EQUALITY < RELATIONAL < SUM < PRODUCT with left associativity; a
\* parenthesized group is one operand.
C4_ChainsNestByRank ==
    (src.fam = "chain" /\ Ended) =>
        /\ outcome = "ok"
        /\ result.list = <<ExpressionStatement(Expected(tokens))>>

\* C4's cases: a + b + c is ((a + b) + c), and a + b * c is (a + (b * c)).
C4_Witness ==
    /\ outcome = "ok"
    /\ \/ /\ tokens = Chain(<<"PLUS", "PLUS">>)
          /\ result.list = <<ExpressionStatement(
                InfixExpression(InfixExpression(Identifier(<<1>>), "+", Identifier(<<2>>)),
                                "+", Identifier(<<3>>)))>>
       \/ /\ tokens = Chain(<<"PLUS", "ASTERISK">>)
          /\ result.list = <<ExpressionStatement(
                InfixExpression(Identifier(<<1>>), "+",
                                InfixExpression(Identifier(<<2>>), "*", Identifier(<<3>>))))>>

RECURSIVE Nodes(_), NodesOfAll(_)
\* The expressions of a tree of expressions: the tree and all it is built of.
Nodes(e) ==
    {e} \cup
    CASE e.t = "PrefixExpression" -> Nodes(e.right)
      [] e.t = "InfixExpression" -> Nodes(e.left) \cup Nodes(e.right)
      [] e.t = "CallExpression" -> Nodes(e.function) \cup NodesOfAll(e.body)
      [] e.t = "Array" -> NodesOfAll(e.elements)
      [] e.t = "IndexExpression" -> Nodes(e.array) \cup Nodes(e.subscript)
      [] OTHER -> {}
NodesOfAll(es) == IF es = <<>> THEN {} ELSE Nodes(Head(es)) \cup NodesOfAll(Tail(es))

\* C5: the operand of a prefix operator is parsed at PREFIX precedence: it never
\* takes in a binary operator that follows, but it does take in a call or an
\* index that follows; and a call or an index applied to an operand of a chain
\* binds tighter than every binary operator.
C5_PrefixAndPostfixBinding ==
    (src.fam = "unary" /\ Ended) =>
        /\ outcome = "ok"
        /\ result.list = <<ExpressionStatement(Expected(tokens))>>
        /\ \A e \in Nodes(result.list[1].expression) :
             /\ e.t = "PrefixExpression" => e.right.t # "InfixExpression"
             /\ e.t = "CallExpression" => e.function.t # "InfixExpression"
             /\ e.t = "IndexExpression" => e.array.t # "InfixExpression"

\* C5's cases: -a * b is ((-a) * b), and -a(b) is (-(a(b))).
C5_Witness ==
    /\ outcome = "ok"
    /\ \/ /\ tokens = <<T("MINUS"), Id(1), T("ASTERISK"), Id(2)>>
          /\ result.list = <<ExpressionStatement(
                InfixExpression(PrefixExpression("-", Identifier(<<1>>)), "*",
                                Identifier(<<2>>)))>>
       \/ /\ tokens = <<T("MINUS"), Id(1), T("LPAREN"), Id(2), T("RPAREN")>>
          /\ result.list = <<ExpressionStatement(
                PrefixExpression("-", CallExpression(Identifier(<<1>>),
                                                     <<Identifier(<<2>>)>>)))>>

\* C6: a let statement that fails its identifier expectation or its assignment
\* expectation makes parse_program return the invalid-token error that carries
\* the failing token: the token found in place of the identifier, or in place
\* of `=`.
C6_LetErrorCarriesFailingToken ==
    (/\ src.fam = "let"
     /\ Ended
     /\ (TokenAt(2).k # "IDENT" \/ TokenAt(3).k # "ASSIGN")) =>
        /\ outcome = "err"
        /\ result.tok = IF TokenAt(2).k # "IDENT" THEN TokenAt(2) ELSE TokenAt(3)

RECURSIVE Ascending(_)
\* The numbers of a finite set in ascending order.
Ascending(S) ==
    IF S = {} THEN <<>>
    ELSE LET least == CHOOSE x \in S : \A y \in S : x <= y
         IN  <<least>> \o Ascending(S \ {least})

\* C8: a hash literal with pairwise distinct keys is parsed to the same Hashmap in
\* whatever order the source lists its pairs: the pairs are held in the order of
\* the keys, not in the order of insertion; {} is the empty Hashmap.
C8_HashPairsInKeyOrder ==
    (src.fam = "hash" /\ Ended) =>
        /\ outcome = "ok"
        /\ LET keys == Ascending({src.keys[i] : i \in 1..Len(src.keys)})
           IN  result.list = <<ExpressionStatement(Hashmap(
                    [i \in 1..Len(keys) |->
                        <<String(<<keys[i]>>), Integer(HashValue(keys[i]))>>]))>>

\* C8's case: {"c": 3, "a": 4, "b": 1} holds its pairs as a, b, c.
C8_Witness ==
    /\ src.fam = "hash"
    /\ src.keys = <<3, 1, 2>>
    /\ outcome = "ok"
    /\ result.list[1].expression.pairs[1][1] = String(<<1>>)
    /\ result.list[1].expression.pairs[3][1] = String(<<3>>)

\* C9: a callee followed by ( e1, ..., en ) is parsed to one Call node of that
\* callee whose arguments are e1..en in source order, each a full expression;
\* [ e1, ..., en ] is parsed to the Array of e1..en; n = 0 is valid for both.
C9_ListsInSourceOrder ==
    (src.fam \in {"call", "array"} /\ Ended) =>
        /\ outcome = "ok"
        /\ LET es == [i \in 1..Len(src.elems) |-> Expected(src.elems[i])]
           IN  result.list = <<ExpressionStatement(
                    IF src.fam = "call" THEN CallExpression(Identifier(<<6>>), es)
                                        ELSE Array(es))>>

\* C9's case: f(1, 2 * 3, 4 + 5) has the arguments 1, (2 * 3), (4 + 5).
C9_Witness ==
    /\ src.fam = "call"
    /\ outcome = "ok"
    /\ result.list[1].expression.t = "CallExpression"
    /\ result.list[1].expression.body =
            <<Integer(1), InfixExpression(Integer(2), "*", Integer(3)),
              InfixExpression(Integer(4), "+", Integer(5))>>

\* C10: expect_next_token(kind) advances the cursor by exactly one token and
\* returns true if the peek token has the kind (the old peek is then the current
\* token and one token was pulled from the source); otherwise it returns false
\* and leaves current, peek and the position of the source as they were.
C10_ExpectNextTokenEffect ==
    [][At("expect_next_token") =>
        IF nxt.k = Top.kind
        THEN /\ cur' = nxt
             /\ nxt' = TokenAt(lexpos + 1)
             /\ lexpos' = IF lexpos < Len(tokens) THEN lexpos + 1 ELSE lexpos
             /\ ret' = BoolResult(TRUE)
        ELSE /\ cur' = cur
             /\ nxt' = nxt
             /\ lexpos' = lexpos
             /\ ret' = BoolResult(FALSE)]_vars

\* C10's case: the expectation of `=` in a let statement has been met, the
\* cursor is on the `=`.
C10_Witness ==
    /\ outcome = "running"
    /\ Top.fn = "parse_let_statement"
    /\ Top.pc = "assign"
    /\ ret = BoolResult(TRUE)
    /\ cur.k = "ASSIGN"
    /\ lexpos = 4

\* C7: round trip: the canonical text of the Program parsed from a valid program
\* is parsed again to Ok, and to a Program with the same canonical text; also
\* for a return statement, whose text is `return <value>`.
C7_RoundTrip ==
    (pass = 1 /\ outcome = "ok" /\ RenderableProgram(result.list))
        ~> (/\ pass = 2
            /\ outcome = "ok"
            /\ RenderableProgram(result.list)
            /\ Render(result.list[1]) = rendered)


\* Parser::new has returned: the parser is in the hands of its user.
AfterNew == ~At("new")

\* The position of the cursor in the token stream, counted from 1; the
\* end-of-input token stands for every position past the end.
Position == PositionOf(M)

\* C11: cursor invariant: after Parser::new, current is the token at a position
\* p of the stream and peek the token at p+1 (end-of-input past the end); new
\* leaves p on the first token, having pulled two tokens; every later step
\* either leaves the cursor alone or raises p by exactly one and pulls exactly
\* one token, so p never decreases.
C11_CursorInvariant ==
    /\ [](AfterNew => cur = TokenAt(Position) /\ nxt = TokenAt(Position + 1))
    /\ [][/\ (At("new") /\ AfterNew') =>
                /\ Position' = 1
                /\ lexpos' = (IF Len(tokens) < 2 THEN Len(tokens) ELSE 2)
          /\ (AfterNew /\ AfterNew') =>
                \/ UNCHANGED <<cur, nxt, lexpos>>
                \/ /\ cur' = nxt
                   /\ nxt' = TokenAt(Position + 2)
                   /\ Position' = (IF Position <= Len(tokens) THEN Position + 1 ELSE Position)
                   /\ lexpos' = (IF lexpos < Len(tokens) THEN lexpos + 1 ELSE lexpos)]_vars

\* C11's case: the parser has advanced past the first token of a stream that
\* goes on for two more tokens at least.
C11_Witness ==
    /\ AfterNew
    /\ outcome = "running"
    /\ Len(tokens) > 3
    /\ lexpos = 3
    /\ cur = tokens[2]
    /\ nxt = tokens[3]


\* The parsing routines of the constructs.
Routines ==
    {"parse_statement", "parse_block_statements", "parse_expression",
     "parse_grouped_expression", "parse_array_literal", "parse_hash_literal",
     "parse_function_expression", "parse_call_arguments", "parse_index_expression",
     "parse_if_expression"}

\* The kinds of token a construct begins with, as its routine reads it.
OpensWith(fn) ==
    CASE fn \in {"parse_grouped_expression", "parse_call_arguments"} -> {"LPAREN"}
      [] fn \in {"parse_array_literal", "parse_index_expression"} -> {"LBRACKET"}
      [] fn \in {"parse_hash_literal", "parse_block_statements"} -> {"LBRACE"}
      [] fn = "parse_function_expression" -> {"FUNCTION"}
      [] fn = "parse_if_expression" -> {"IF"}
      [] OTHER -> {TokenAt(i).k : i \in 1..Len(tokens)}

RECURSIVE MatchFrom(_, _)
\* The position of the bracket that closes the d-th bracket open at q, or the
\* end of the input if there is none.
MatchFrom(q, d) ==
    IF q > Len(tokens) THEN Len(tokens) + 1
    ELSE IF tokens[q].k \in Opens THEN MatchFrom(q + 1, d + 1)
    ELSE IF tokens[q].k \in Closes
         THEN IF d = 1 THEN q ELSE MatchFrom(q + 1, d - 1)
    ELSE MatchFrom(q + 1, d)

\* The position of the bracket that closes the bracket at p.
Match(p) == MatchFrom(p + 1, 1)

RECURSIVE DepthAfter(_, _, _)
\* The number of brackets open after the tokens i..q, d being open before
\* them; -1 if one of them closes a bracket that was opened before i.
DepthAfter(i, q, d) ==
    IF i > q \/ i > Len(tokens) THEN d
    ELSE IF tokens[i].k \in Opens THEN DepthAfter(i + 1, q, d + 1)
    ELSE IF tokens[i].k \in Closes
         THEN IF d = 0 THEN -1 ELSE DepthAfter(i + 1, q, d - 1)
    ELSE DepthAfter(i + 1, q, d)

\* The tokens p..q close no bracket of the tokens before them.
Within(p, q) == p <= q /\ DepthAfter(p, q, 0) >= 0
\* The tokens p..q close the brackets they open and no other; the end of the
\* input closes every bracket.
Balanced(p, q) == p <= q /\ (DepthAfter(p, q, 0) = 0 \/ (q > Len(tokens) /\ Within(p, q)))

RECURSIVE HasNull(_), AnyHasNull(_), AnyPairHasNull(_)
\* The Null sentinel is part of the node.
HasNull(n) ==
    CASE n.t = "Null" -> TRUE
      [] n.t = "PrefixExpression" -> HasNull(n.right)
      [] n.t = "InfixExpression" -> HasNull(n.left) \/ HasNull(n.right)
      [] n.t = "IfExpression" ->
            HasNull(n.condition) \/ HasNull(n.consequence) \/ HasNull(n.alternative)
      [] n.t = "FunctionLiteral" -> HasNull(n.body)
      [] n.t = "CallExpression" -> HasNull(n.function) \/ AnyHasNull(n.body)
      [] n.t = "Array" -> AnyHasNull(n.elements)
      [] n.t = "IndexExpression" -> HasNull(n.array) \/ HasNull(n.subscript)
      [] n.t = "Hashmap" -> AnyPairHasNull(n.pairs)
      [] n.t = "LetStatement" -> HasNull(n.value)
      [] n.t = "Return" -> HasNull(n.value)
      [] n.t = "ExpressionStatement" -> HasNull(n.expression)
      [] n.t = "Block" -> AnyHasNull(n.statements)
      [] OTHER -> FALSE
AnyHasNull(ns) == IF ns = <<>> THEN FALSE ELSE HasNull(Head(ns)) \/ AnyHasNull(Tail(ns))
AnyPairHasNull(ps) ==
    IF ps = <<>> THEN FALSE
    ELSE HasNull(Head(ps)[1]) \/ HasNull(Head(ps)[2]) \/ AnyPairHasNull(Tail(ps))

\* The routine of frame f, entered at f.entry, returns Ok(v) with the cursor at
\* q, the last token of its construct: the bracket that closes the construct's
\* own opening bracket, or for a function literal and an if expression the
\* brace that ends its last block; a statement and an expression end where
\* their brackets are closed. A routine that gives up with the Null sentinel
\* ends on a token of its construct, as does a routine that has Null within.
ExitsAt(f, v, q) ==
    IF HasNull(v) THEN Within(f.entry, q)
    ELSE CASE f.fn \in {"parse_grouped_expression", "parse_array_literal",
                        "parse_hash_literal", "parse_call_arguments",
                        "parse_index_expression", "parse_block_statements"} ->
                    q = Match(f.entry)
           [] f.fn \in {"parse_function_expression", "parse_if_expression"} ->
                    TokenAt(q).k \in {"RBRACE", "EOF"} /\ Balanced(f.entry, q)
           [] OTHER -> Balanced(f.entry, q)

\* The running routine fn returns Ok in this step.
ReturnsOk(fn) ==
    /\ At(fn)
    /\ outcome' = "running"
    /\ Len(stack') = Len(stack) - 1
    /\ ret'.st = "ok"

\* C12: every parsing routine that returns Ok (statement, block, expression,
\* group, array, hash, function literal, call, index, if) was entered with
\* current on the first token of its construct and returns with current on the
\* last token of the construct, never past it, also when it returns the Null
\* sentinel.
C12_EntryAndExitPositions ==
    [][\A fn \in Routines :
        ReturnsOk(fn) =>
            /\ TokenAt(Top.entry).k \in OpensWith(fn)
            /\ ExitsAt(Top, ret'.v, Position')]_vars


\* C13: a group `(` inner that is not followed by `)`, be it a statement, an
\* operand, an argument or the condition of an if, makes parse_program return
\* the invalid-token error, and the error carries the token that was found
\* where `)` was required.
C13_UnclosedGroupError ==
    (src.fam = "unclosed" /\ Ended) =>
        /\ outcome = "err"
        /\ result.tok = TokenAt(src.at)


\* The function literal of the source: `(`, identifiers only, `)`, `{`.
WellFormedFunction ==
    /\ src.lparen
    /\ src.lbrace
    /\ \A i \in 1..Len(src.params) : src.params[i].k = "IDENT"

\* The function literal that the source of the family "function" denotes.
ExpectedFunction ==
    FunctionLiteral([i \in 1..Len(src.params) |-> Identifier(src.params[i].l)],
                    Block(IF src.body = <<>> THEN <<>>
                          ELSE <<ExpressionStatement(Identifier(src.body[1].l))>>))

\* parse_program has returned a Program with a function literal as a statement.
ProducesFunctionLiteral ==
    /\ outcome = "ok"
    /\ \E i \in 1..Len(result.list) :
            /\ result.list[i].t = "ExpressionStatement"
            /\ result.list[i].expression.t = "FunctionLiteral"

\* C14: a FunctionLiteral is returned only for `fn`, `(`, zero or more
\* comma-separated identifier tokens, `)`, and a block opened by `{`; its
\* parameters are the Identifiers of those tokens in source order, and
\* `fn () {}` has no parameter and an empty body. A token in the parameter list
\* that is not an identifier, or a missing `{`, gives no FunctionLiteral.
C14_FunctionLiteralGrammar ==
    (src.fam = "function" /\ Ended) =>
        IF WellFormedFunction
        THEN outcome = "ok" /\ result.list = <<ExpressionStatement(ExpectedFunction)>>
        ELSE ~ProducesFunctionLiteral


=============================================================================
